---- MODULE Spec2Model ----
(***************************************************************************)
(* Metacommunity (src/src/metacommunity.h): N patches that share one       *)
(* parameter object, one ODE solver and the process-wide random generator. *)
(* Patch, ode::Solver, util::sum and R::rbinom are not part of the sources *)
(* at hand; they are modelled at their interface.                          *)
(*                                                                         *)
(* OdeSystem<Lorenz> (src/unnamed/part_000): the exported wrappers of the  *)
(* ODE system of the solver's tests; the system behind them is modelled at *)
(* its interface.                                                          *)
(*                                                                         *)
(* A continuous state variable is an individual's height, an integer in    *)
(* 0..MaxHeight.  Vectors are 1-based sequences; a cursor (ode::iter) is   *)
(* the number of slots in front of it.                                     *)
(***************************************************************************)
EXTENDS Integers, Sequences, FiniteSets, TLC

\* ------------------------------------------------------------------ bounds
MaxPatches == 2      \* parameters.n_patches ranges over 1..MaxPatches
MaxSpecies == 2      \* parameters.size() ranges over 1..MaxSpecies
MaxInd == 2          \* individuals alive in the whole metacommunity
MaxHeight == 1       \* heights range over 0..MaxHeight
MaxAge == 2          \* the metacommunity age an ODE step may start from
MaxDt == 2           \* the largest step size the solver tries
RngMod == 2          \* number of states of the random generator
MaxTime == 5         \* the ODE system's time ranges over 0..MaxTime
MaxObjects == 3      \* addresses at which a Lookup object can live
MaxValue == 1        \* a parameter's value ranges over 0..MaxValue
MaxPlantHeight == 3  \* a plant's height ranges over 0..MaxPlantHeight

\* ------------------------------------------------- strategy (growth model)
height_0 == 0        \* height of a germinated seed
hmat == 1            \* height at maturation

VARIABLES parameters, patches, age, rng, calls, ode_solver, ode_system, objects, plant_approx

vars == <<parameters, patches, age, rng, calls, ode_solver, ode_system, objects, plant_approx>>

\* ----------------------------------------------------------------- helpers
RECURSIVE SumSeq(_)
SumSeq(s) == IF s = <<>> THEN 0 ELSE Head(s) + SumSeq(Tail(s))

RECURSIVE Concat(_)
Concat(ss) == IF ss = <<>> THEN <<>> ELSE Head(ss) \o Concat(Tail(ss))

Repeat(x, n) == [k \in 1..n |-> x]

Max(a, b) == IF a >= b THEN a ELSE b
Min(a, b) == IF a <= b THEN a ELSE b

\* One entry of the call log: the method, the patch it was called on (0: the
\* metacommunity, the solver or the generator) and its vector argument.
Call(op, patch, arg) == [op |-> op, patch |-> patch, arg |-> arg]

\* -------------------------------------------------------------------- Patch
\* A patch holds one cohort list per species, oldest individual first, and
\* its age: the time since its last disturbance.
NewPatch(n_species) == [species |-> [s \in 1..n_species |-> <<>>], age |-> 0]

patch_flat(p) == Concat(p.species)

patch_ode_size(p) == Len(patch_flat(p))

patch_n_individuals(p) == [s \in 1..Len(p.species) |-> Len(p.species[s])]

\* The growth rate of an individual: it grows until it reaches MaxHeight.
growth_rate(h) == IF h < MaxHeight THEN 1 ELSE 0

\* Writes the patch's ode_size() values at the cursor, returns the cursor
\* advanced by ode_size().
patch_ode_values(p, buf, it) ==
  LET flat == patch_flat(p)
      n == Len(flat)
  IN [buf |-> [k \in 1..Len(buf) |-> IF k > it /\ k <= it + n THEN flat[k - it] ELSE buf[k]],
      it |-> it + n]

patch_ode_rates(p, buf, it) ==
  LET flat == patch_flat(p)
      n == Len(flat)
  IN [buf |-> [k \in 1..Len(buf) |->
                 IF k > it /\ k <= it + n THEN growth_rate(flat[k - it]) ELSE buf[k]],
      it |-> it + n]

\* Number of slots in front of species s within the patch.
patch_offset(p, s) == SumSeq([t \in 1..(s - 1) |-> Len(p.species[t])])

\* Slot k of a vector; a slot outside the vector reads as 0.
Slot(y, k) == IF k \in DOMAIN y THEN y[k] ELSE 0

\* Reads ode_size() values at the cursor into the individuals, species by
\* species, returns the cursor advanced by ode_size().
patch_ode_values_set(p, y, it) ==
  [patch |-> [p EXCEPT !.species =
                [s \in 1..Len(p.species) |->
                   [k \in 1..Len(p.species[s]) |-> Slot(y, it + patch_offset(p, s) + k)]]],
   it |-> it + patch_ode_size(p)]

\* Seedlings are appended to the cohort of their species at the germination
\* height; a species without an entry in counts gets none, an entry without a
\* species is dropped, a count below one adds nothing.
patch_add_seeds(p, counts) ==
  [p EXCEPT !.species =
     [s \in 1..Len(p.species) |->
        p.species[s] \o (IF s <= Len(counts) /\ counts[s] > 0
                         THEN Repeat(height_0, counts[s]) ELSE <<>>)]]

patch_add_seedlings(p, counts) == patch_add_seeds(p, counts)

patch_r_clear(p) ==
  [p EXCEPT !.species = [s \in 1..Len(p.species) |-> <<>>], !.age = 0]

\* --------------------------------------------------------- random generator
\* The process-wide generator: unif_rand() advances the state and returns
\* u = r / RngMod with r the new state.
unif_rand(g) == [r |-> (g + 1) % RngMod, rng |-> (g + 1) % RngMod]

IntMax == 2147483647
IntMin == -IntMax - 1

RECURSIVE Power(_, _)
Power(b, e) == IF e = 0 THEN 1 ELSE b * Power(b, e - 1)

RECURSIVE Choose(_, _)
Choose(n, k) == IF k = 0 THEN 1 ELSE (Choose(n, k - 1) * (n - k + 1)) \div k

\* j^n * P(X <= k) for X ~ Binomial(n, 1/j).
BinomCdfNum(n, j, k) ==
  SumSeq([i \in 1..(k + 1) |-> Choose(n, i - 1) * Power(j - 1, n - (i - 1))])

\* The smallest k with P(X <= k) > r / RngMod (inversion).
BinomQuantile(n, j, r) ==
  CHOOSE k \in 0..n :
    /\ RngMod * BinomCdfNum(n, j, k) > r * Power(j, n)
    /\ \A l \in 0..(k - 1) : ~(RngMod * BinomCdfNum(n, j, l) > r * Power(j, n))

\* R::rbinom(n, p) with p = 1.0/(double)j for a size_t j.  j is kept as an
\* integer: 0 stands for p = +Inf, a negative j for the wrapped value
\* 2^64 + j, whose p is positive and below 2^-63.  NaN for p outside [0, 1]
\* or n < 0; 0 without a draw for n = 0; one draw otherwise.
rbinom(n, j, g) ==
  IF j = 0 \/ n < 0 THEN [nan |-> TRUE, k |-> 0, rng |-> g]
  ELSE IF n = 0 THEN [nan |-> FALSE, k |-> 0, rng |-> g]
  ELSE LET u == unif_rand(g)
       IN [nan |-> FALSE,
           k |-> IF j < 0 THEN 0 ELSE IF j = 1 THEN n ELSE BinomQuantile(n, j, u.r),
           rng |-> u.rng]

\* int - int as two's complement over 32 bits, for the operands that occur:
\* k is a draw from 0..x, or what the cast of a NaN gave.
Sub32(x, k) ==
  IF k = IntMin THEN (IF x >= 0 THEN x + IntMin ELSE (x + 1) + IntMax)
  ELSE x - k

\* ------------------------------------------------------- Patch (demography)
\* Every individual rolls once: it dies when the draw is 0.  Survivors keep
\* their order.
RECURSIVE cohort_deaths(_, _)
cohort_deaths(c, g) ==
  IF c = <<>> THEN [cohort |-> <<>>, rng |-> g]
  ELSE LET u == unif_rand(g)
           rest == cohort_deaths(Tail(c), u.rng)
       IN [cohort |-> IF u.r = 0 THEN rest.cohort ELSE <<Head(c)>> \o rest.cohort,
           rng |-> rest.rng]

RECURSIVE species_deaths(_, _, _)
species_deaths(sp, s, g) ==
  IF s > Len(sp) THEN [species |-> sp, rng |-> g]
  ELSE LET r == cohort_deaths(sp[s], g)
       IN species_deaths([sp EXCEPT ![s] = r.cohort], s + 1, r.rng)

\* A disturbed patch that keeps its age.
patch_deaths_keeping_age(p, g, elapsed, event) ==
  LET Disturb(r) ==
        IF event THEN [patch |-> [p EXCEPT !.species = [s \in 1..Len(p.species) |-> <<>>],
                                           !.age = @ + elapsed],
                       rng |-> r.rng]
        ELSE [patch |-> [p EXCEPT !.species = r.species, !.age = @ + elapsed],
              rng |-> r.rng]
  IN Disturb(species_deaths(p.species, 1, g))

\* deaths(): the mortality rolls; the patch's age moves on by the time the
\* deterministic step of this cycle took; when the age crosses a
\* disturbance event the patch is cleared and its age is 0 again.
patch_deaths(p, g, elapsed, event) ==
  LET Disturb(r) ==
        IF event THEN [patch |-> [p EXCEPT !.species = [s \in 1..Len(p.species) |-> <<>>],
                                           !.age = 0],
                       rng |-> r.rng]
        ELSE [patch |-> [p EXCEPT !.species = r.species, !.age = @ + elapsed],
              rng |-> r.rng]
  IN Disturb(species_deaths(p.species, 1, g))

\* One seed per mature individual.
fecundity(h) == IF h >= hmat THEN 1 ELSE 0

patch_births(p) ==
  [s \in 1..Len(p.species) |->
     SumSeq([k \in 1..Len(p.species[s]) |-> fecundity(p.species[s][k])])]

\* ------------------------------------------------------------ Metacommunity
size(ps) == Len(ps)

n_species == parameters.n_species

initialise_one_short(n_patches, ns) == [i \in 1..(n_patches - 1) |-> NewPatch(ns)]

initialise(n_patches, ns) == [i \in 1..n_patches |-> NewPatch(ns)]

RECURSIVE ode_size_from(_, _)
ode_size_from(ps, k) ==
  IF k > Len(ps) THEN 0 ELSE patch_ode_size(ps[k]) + ode_size_from(ps, k + 1)

ode_size_skip_first(ps) == ode_size_from(ps, 2)

ode_size(ps) == ode_size_from(ps, 1)

RECURSIVE ode_values_from(_, _, _, _)
ode_values_from(ps, k, buf, it) ==
  IF k > Len(ps) THEN [buf |-> buf, it |-> it]
  ELSE LET r == patch_ode_values(ps[k], buf, it)
       IN ode_values_from(ps, k + 1, r.buf, r.it)

ode_values(ps, buf, it) == ode_values_from(ps, 1, buf, it)

RECURSIVE ode_rates_from(_, _, _, _)
ode_rates_from(ps, k, buf, it) ==
  IF k > Len(ps) THEN [buf |-> buf, it |-> it]
  ELSE LET r == patch_ode_rates(ps[k], buf, it)
       IN ode_rates_from(ps, k + 1, r.buf, r.it)

RECURSIVE ode_rates_down(_, _, _, _)
ode_rates_down(ps, k, buf, it) ==
  IF k < 1 THEN [buf |-> buf, it |-> it]
  ELSE LET r == patch_ode_rates(ps[k], buf, it)
       IN ode_rates_down(ps, k - 1, r.buf, r.it)

ode_rates_reversed(ps, buf, it) == ode_rates_down(ps, Len(ps), buf, it)

ode_rates(ps, buf, it) == ode_rates_from(ps, 1, buf, it)

RECURSIVE ode_values_set_from(_, _, _, _)
ode_values_set_from(ps, k, y, it) ==
  IF k > Len(ps) THEN [patches |-> ps, it |-> it]
  ELSE LET r == patch_ode_values_set(ps[k], y, it)
       IN ode_values_set_from([ps EXCEPT ![k] = r.patch], k + 1, y, r.it)

RECURSIVE ode_values_set_down(_, _, _, _)
ode_values_set_down(ps, k, y, it) ==
  IF k < 1 THEN [patches |-> ps, it |-> it]
  ELSE LET r == patch_ode_values_set(ps[k], y, it)
       IN ode_values_set_down([ps EXCEPT ![k] = r.patch], k - 1, y, r.it)

ode_values_set_reversed(ps, y, it) == ode_values_set_down(ps, Len(ps), y, it)

ode_values_set(ps, y, it) == ode_values_set_from(ps, 1, y, it)

\* The state vector as step_deterministic packs it: a vector of ode_size()
\* slots filled by ode_values from its first slot.
state_vector(ps) == ode_values(ps, Repeat(0, ode_size(ps)), 0).buf

rate_vector(ps) == ode_rates(ps, Repeat(0, ode_size(ps)), 0).buf

n_individuals(ps) == SumSeq([i \in 1..Len(ps) |-> patch_ode_size(ps[i])])

\* The object while a method runs: its fields, the generator, and the calls
\* made so far by the running top-level operation.
\* elapsed is the time the deterministic step of the running cycle took,
\* hazard the patches whose disturbance event falls within that time.
Machine(ps, a, g) ==
  [patches |-> ps, age |-> a, rng |-> g, solver |-> ode_solver, calls |-> <<>>,
   elapsed |-> 0, hazard |-> {}]

Log(m, op, patch, arg) ==
  [m EXCEPT !.calls = Append(@, Call(op, patch, arg))]

failed(m) == m.calls # <<>> /\ m.calls[Len(m.calls)].op = "throw"

\* What the build makes of undefined behaviour during one call: nan is the
\* int a cast of NaN yields, oob the int a read past the end of a vector
\* yields.
NaNAsInt == {IntMin, 0}
StrayInt == {-1, 0, 1}
UB == [nan : NaNAsInt, oob : StrayInt]

\* The choices that can make a difference.  With one patch p is 1 at every
\* draw and no index passes the end of a vector; with as many species as
\* patches or more, no vector of per-species values is read past its end.
UBFor(ps) ==
  [nan : IF size(ps) > 1 THEN NaNAsInt ELSE {0},
   oob : IF n_species < size(ps) THEN StrayInt ELSE {0}]

\* util::sum(a, b): element by element over a; b is read at the same index.
util_sum(a, b, oob) ==
  [i \in 1..Len(a) |-> a[i] + (IF i <= Len(b) THEN b[i] ELSE oob)]

RECURSIVE deaths_from(_, _)
deaths_from(m, k) ==
  IF k > Len(m.patches) THEN m
  ELSE LET event == k \in m.hazard /\ m.elapsed > 0
           Done(m1, r) ==
             deaths_from([m1 EXCEPT !.patches[k] = r.patch, !.rng = r.rng], k + 1)
           m0 == Log(m, "patch.deaths", k, <<>>)
       IN Done(IF event THEN Log(m0, "patch.disturbance", k, <<>>) ELSE m0,
               patch_deaths(m.patches[k], m.rng, m.elapsed, event))

deaths(m) == [deaths_from(Log(m, "deaths", 0, <<>>), 1) EXCEPT !.elapsed = 0]

RECURSIVE births_from(_, _, _, _)
births_from(m, k, n, oob) ==
  IF k > Len(m.patches) THEN [m |-> m, n |-> n]
  ELSE LET m1 == Log(m, "patch.births", k, <<>>)
       IN births_from(m1, k + 1, util_sum(n, patch_births(m1.patches[k]), oob), oob)

births(m, oob) ==
  births_from(Log(m, "births", 0, <<>>), 1, Repeat(0, size(m.patches)), oob)

\* The loop over i of add_seeds for one patch: l holds m, the vector seeds,
\* the counter j and the vector seeds_i; jp is the j that p was computed from.
RECURSIVE add_seeds_inner(_, _, _, _, _)
add_seeds_inner(l, patch, jp, i, ub) ==
  IF ~(i < size(l.m.patches)) THEN l
  ELSE LET inside == i + 1 <= Len(l.seeds)
           n == IF inside THEN l.seeds[i + 1] ELSE ub.oob
           m1 == Log(l.m, "rbinom", patch, <<n, jp, l.j, i>>)
           r == rbinom(n, jp, m1.rng)
           k == IF r.nan THEN ub.nan ELSE r.k
       IN add_seeds_inner(
            [m |-> [m1 EXCEPT !.rng = r.rng],
             seeds |-> IF inside THEN [l.seeds EXCEPT ![i + 1] = Sub32(n, k)] ELSE l.seeds,
             j |-> l.j - 1,
             seeds_i |-> [l.seeds_i EXCEPT ![i + 1] = k]],
            patch, jp, i + 1, ub)

RECURSIVE add_seeds_from(_, _, _)
add_seeds_from(l, patch, ub) ==
  IF patch > size(l.m.patches) THEN l.m
  ELSE LET l1 == add_seeds_inner([l EXCEPT !.seeds_i = Repeat(0, size(l.m.patches))],
                                 patch, l.j, 0, ub)
           m1 == Log(l1.m, "patch.add_seeds", patch, l1.seeds_i)
       IN add_seeds_from(
            [l1 EXCEPT !.m = [m1 EXCEPT !.patches[patch] = patch_add_seeds(@, l1.seeds_i)]],
            patch + 1, ub)

add_seeds(m, seeds, ub) ==
  add_seeds_from([m |-> Log(m, "add_seeds", 0, seeds), seeds |-> seeds,
                  j |-> size(m.patches), seeds_i |-> <<>>], 1, ub)

step_stochastic_births_first(m, ub) ==
  LET Seed(b) == add_seeds(deaths(b.m), b.n, ub)
      m0 == Log(m, "step_stochastic", 0, state_vector(m.patches))
  IN Seed(births(m0, ub.oob))

\* step_stochastic that moves the age on.
step_stochastic_ageing(m, ub) ==
  LET Seed(b) == [add_seeds(b.m, b.n, ub) EXCEPT !.age = @ + 1]
      d == deaths(Log(m, "step_stochastic", 0, state_vector(m.patches)))
  IN Seed(births(d, ub.oob))

step_stochastic(m, ub) ==
  LET Seed(b) == add_seeds(b.m, b.n, ub)
      d == deaths(Log(m, "step_stochastic", 0, state_vector(m.patches)))
  IN Seed(births(d, ub.oob))

\* ---------------------------------------------------------------- ODE solver
\* derivs that writes the rates before it overwrites the state.
derivs_rates_first(m, time, y) ==
  LET Rates(m2, set, dydt) ==
        [m |-> m2, dydt |-> dydt.buf, it_set |-> set.it, it_rates |-> dydt.it]
      Set(m1, set) ==
        Rates([m1 EXCEPT !.patches = set.patches], set,
              ode_rates(m.patches, Repeat(0, Len(y)), 0))
  IN Set(Log(m, "derivs", 0, y), ode_values_set(m.patches, y, 0))

\* time is accepted and not used.
derivs(m, time, y) ==
  LET Rates(m2, set, dydt) ==
        [m |-> m2, dydt |-> dydt.buf, it_set |-> set.it, it_rates |-> dydt.it]
      Set(m1, set) ==
        Rates([m1 EXCEPT !.patches = set.patches], set,
              ode_rates(set.patches, Repeat(0, Len(y)), 0))
  IN Set(Log(m, "derivs", 0, y), ode_values_set(m.patches, y, 0))

\* The solution of dy/dt = growth_rate(y) after time d.
Advance(y, d) == [k \in 1..Len(y) |-> Min(MaxHeight, y[k] + d)]

\* A solver that repeats a rejected attempt with the size it had.
RECURSIVE solver_try_same_size(_, _, _, _, _, _)
solver_try_same_size(m, y0, t, h, rejects, fsal) ==
  LET Judge(m2) ==
        IF rejects > 0 THEN solver_try_same_size(m2, y0, t, h, rejects - 1, fsal)
        ELSE [m |-> m2, ok |-> TRUE, y |-> Advance(y0, h), time |-> t + h]
      m1 == derivs(Log(m, "solver.try", 0, <<h>>), t, y0).m
  IN Judge(derivs(m1, t + (IF fsal THEN h ELSE h - 1),
                       Advance(y0, IF fsal THEN h ELSE h - 1)).m)

\* One attempt of size h from (t, y0): the derivatives at the start and at
\* the last stage, which is the end of the step when the scheme evaluates
\* there (fsal) and an earlier point otherwise.  A rejected attempt is
\* repeated with half the size; below the minimum size of 1 the step fails.
RECURSIVE solver_try(_, _, _, _, _, _)
solver_try(m, y0, t, h, rejects, fsal) ==
  IF h < 1 THEN [m |-> Log(m, "throw", 0, <<>>), ok |-> FALSE, y |-> y0, time |-> t]
  ELSE LET Judge(m2) ==
             IF rejects > 0 THEN solver_try(m2, y0, t, h \div 2, rejects - 1, fsal)
             ELSE [m |-> m2, ok |-> TRUE, y |-> Advance(y0, h), time |-> t + h]
           m1 == derivs(Log(m, "solver.try", 0, <<h>>), t, y0).m
       IN Judge(derivs(m1, t + (IF fsal THEN h ELSE h - 1),
                       Advance(y0, IF fsal THEN h ELSE h - 1)).m)

\* The solver's step-size history: "none" after construction and after
\* reset(), "current" once a step has been tried.
Solver == [history |-> "none"]

solver_reset(m) == [Log(m, "solver.reset", 0, <<>>) EXCEPT !.solver.history = "none"]

\* A step starts from the history there is and leaves its own.
solver_step(m, y0, t, sv) ==
  LET Accept(r) ==
        IF r.ok THEN [r EXCEPT !.m = Log(r.m, "solver.accept", 0, <<r.time>> \o r.y)]
        ELSE r
      m0 == [Log(m, "solver.step", 0, <<t, m.solver.history>>) EXCEPT
               !.solver.history = "current"]
  IN Accept(solver_try(m0, y0, t, MaxDt, sv.rejects, sv.fsal))

\* The number of attempts the solver can make before the size falls below
\* the minimum.
RECURSIVE Attempts(_)
Attempts(h) == IF h < 1 THEN 0 ELSE 1 + Attempts(h \div 2)

\* rejects = Attempts(MaxDt): every attempt is rejected and the step fails.
SolverChoice ==
  [rejects : 0..(Attempts(MaxDt) - 1), fsal : BOOLEAN]
    \cup {[rejects |-> Attempts(MaxDt), fsal |-> FALSE]}

\* set_state(values, time): fails when values has not the target's
\* ode_size() entries.
solver_set_state(m, y, t) ==
  LET m1 == Log(m, "solver.set_state", 0, y)
  IN IF Len(y) # ode_size(m.patches) THEN Log(m1, "throw", 0, <<>>) ELSE m1

\* step_deterministic with a vector one slot longer than ode_size().
step_deterministic_long_vector(m, sv) ==
  LET Take(r) ==
        IF r.ok THEN [r.m EXCEPT !.age = r.time, !.elapsed = r.time - m.age] ELSE r.m
      Solve(m1, y) == IF failed(m1) THEN m1 ELSE Take(solver_step(m1, y, m1.age, sv))
      Pack(m0, y) == Solve(solver_set_state(m0, y, m0.age), y)
  IN Pack(Log(m, "step_deterministic", 0, <<>>),
          ode_values(m.patches, Repeat(0, ode_size(m.patches) + 1), 0).buf)

\* y is the vector ode_values fills, m1 the object once the solver has been
\* given it, r what the solver's step returns.
step_deterministic(m, sv) ==
  LET Take(r) ==
        IF r.ok THEN [r.m EXCEPT !.age = r.time, !.elapsed = r.time - m.age] ELSE r.m
      Solve(m1, y) == IF failed(m1) THEN m1 ELSE Take(solver_step(m1, y, m1.age, sv))
      Pack(m0, y) == Solve(solver_set_state(m0, y, m0.age), y)
  IN Pack(Log(m, "step_deterministic", 0, <<>>),
          ode_values(m.patches, Repeat(0, ode_size(m.patches)), 0).buf)

step_stochastic_first(m, sv, ub) ==
  step_deterministic(step_stochastic(m, ub), sv)

step_after_failure(m, sv, ub) ==
  step_stochastic(step_deterministic(m, sv), ub)

step(m, sv, ub) ==
  LET Then(d) == IF failed(d) THEN d ELSE step_stochastic(d, ub)
  IN Then(step_deterministic(m, sv))

\* ------------------------------------------------------------- R interface
\* A matrix is the sequence of its columns; each column holds one entry per
\* row.
ncol(mat) == Len(mat)
nrow(mat) == Len(mat[1])

RECURSIVE add_seedlings_from(_, _, _)
add_seedlings_from(m, mat, i) ==
  IF ~(i < size(m.patches)) THEN m
  ELSE LET m1 == Log(m, "patch.add_seedlings", i + 1, mat[i + 1])
       IN add_seedlings_from(
            [m1 EXCEPT !.patches[i + 1] = patch_add_seedlings(@, mat[i + 1])], mat, i + 1)

\* util::check_length throws when the two lengths differ.
r_add_seedlings(m, mat) ==
  LET m0 == Log(m, "r_add_seedlings", 0, <<ncol(mat), nrow(mat)>>)
  IN IF ncol(mat) # size(m.patches) THEN Log(m0, "throw", 0, <<>>)
     ELSE IF nrow(mat) # n_species THEN Log(m0, "throw", 0, <<>>)
     ELSE add_seedlings_from(m0, mat, 0)

\* Patch::r_n_individuals: the number of individuals of every species.
patch_r_n_individuals(p) == [s \in 1..Len(p.species) |-> Len(p.species[s])]

\* std::copy(n.begin(), n.end(), it): n is written from the cursor on, which
\* is returned advanced.
copy(n, ret, it) ==
  [ret |-> [i \in DOMAIN ret |-> IF it < i /\ i <= it + Len(n) THEN n[i - it] ELSE ret[i]],
   it |-> it + Len(n)]

RECURSIVE r_n_individuals_from(_, _, _, _)
r_n_individuals_from(ps, k, ret, it) ==
  IF k > Len(ps) THEN ret
  ELSE LET c == copy(patch_r_n_individuals(ps[k]), ret, it)
       IN r_n_individuals_from(ps, k + 1, c.ret, c.it)

\* The storage of an IntegerMatrix read row after row.
r_n_individuals_by_row(ps) ==
  LET ret == r_n_individuals_from(ps, 1, Repeat(0, n_species * size(ps)), 0)
  IN [c \in 1..size(ps) |-> [r \in 1..n_species |-> ret[(r - 1) * size(ps) + c]]]

\* ret(n_species(), size()) is stored column after column: entry (r, c) is
\* slot (c - 1) * nrow + r of the storage that ret.begin() runs through.
r_n_individuals(ps) ==
  LET ret == r_n_individuals_from(ps, 1, Repeat(0, n_species * size(ps)), 0)
  IN [c \in 1..size(ps) |-> [r \in 1..n_species |-> ret[(c - 1) * n_species + r]]]

RECURSIVE r_clear_from(_, _)
r_clear_from(m, k) ==
  IF k > Len(m.patches) THEN m
  ELSE r_clear_from([Log(m, "patch.r_clear", k, <<>>) EXCEPT
                       !.patches[k] = patch_r_clear(@)], k + 1)

\* r_clear that leaves the age as it is.
r_clear_keeping_age(m) ==
  solver_reset(r_clear_from(Log(m, "r_clear", 0, state_vector(m.patches)), 1))

r_clear(m) ==
  solver_reset(
    r_clear_from([Log(m, "r_clear", 0, state_vector(m.patches)) EXCEPT !.age = 0], 1))

\* Rcpp::RNGScope: its constructor takes the generator state from R, its
\* destructor hands it back when the scope is left, by return or by exception.
r_step_reacquiring(m, sv, ub) ==
  LET Then(d) ==
        IF failed(d) THEN d
        ELSE Log(step_stochastic(Log(d, "rng.acquire", 0, <<>>), ub), "rng.release", 0, <<>>)
      m0 == Log(Log(m, "r_step", 0, <<>>), "rng.acquire", 0, <<>>)
  IN Log(Then(step_deterministic(Log(m0, "step", 0, <<>>), sv)), "rng.release", 0, <<>>)

r_step(m, sv, ub) ==
  LET m0 == Log(Log(m, "r_step", 0, <<>>), "rng.acquire", 0, <<>>)
  IN Log(step(Log(m0, "step", 0, <<>>), sv, ub), "rng.release", 0, <<>>)

r_step_stochastic(m, ub) ==
  LET m0 == Log(Log(m, "r_step_stochastic", 0, <<>>), "rng.acquire", 0, <<>>)
  IN Log(step_stochastic(m0, ub), "rng.release", 0, <<>>)

\* ------------------------------------------------------- OdeSystem<Lorenz>
\* The system behind the exported wrappers: its time t.  The object while a
\* wrapper runs: the system and the calls made so far.
OdeSystem___Lorenz__ctor == [t |-> 0]

OdeMachine(sys) == [sys |-> sys, calls |-> <<>>]

\* advance(t, dt): sub-steps of size dt at most until the time is t.  An
\* attempt that would pass t is cut to end at t; a rejected attempt is
\* repeated with half the size, an accepted one moves the time on.
RECURSIVE advance_unclipped_from(_, _, _, _)
advance_unclipped_from(o, t, dt, rejects) ==
  IF o.sys.t >= t THEN o
  ELSE LET o1 == Log(o, "ode.try", 0, <<o.sys.t, dt>>)
       IN IF rejects > 0
          THEN IF dt \div 2 < 1 THEN Log(o1, "throw", 0, <<>>)
               ELSE advance_unclipped_from(o1, t, dt \div 2, rejects - 1)
          ELSE advance_unclipped_from(
                 Log([o1 EXCEPT !.sys.t = @ + dt], "ode.step", 0, <<o.sys.t + dt>>), t, dt, 0)

OdeSystem___Lorenz__advance_unclipped(o, t, dt, rejects) ==
  advance_unclipped_from(o, t, dt, rejects)

RECURSIVE advance_from(_, _, _, _)
advance_from(o, t, dt, rejects) ==
  IF o.sys.t >= t THEN o
  ELSE LET h == Min(dt, t - o.sys.t)
           o1 == Log(o, "ode.try", 0, <<o.sys.t, h>>)
       IN IF rejects > 0
          THEN IF h \div 2 < 1 THEN Log(o1, "throw", 0, <<>>)
               ELSE advance_from(o1, t, h \div 2, rejects - 1)
          ELSE advance_from(
                 Log([o1 EXCEPT !.sys.t = @ + h], "ode.step", 0, <<o.sys.t + h>>), t, dt, 0)

OdeSystem___Lorenz__advance(o, t, dt, rejects) == advance_from(o, t, dt, rejects)

\* try_step(dt): one attempt of size dt, no retry; tells whether it was
\* accepted.  do_step(dt): one step of size dt.
OdeSystem___Lorenz__try_step(o, dt, accepted) ==
  LET o1 == Log(o, "ode.try", 0, <<o.sys.t, dt>>)
  IN IF accepted
     THEN Log([o1 EXCEPT !.sys.t = @ + dt], "ode.step", 0, <<o.sys.t + dt>>)
     ELSE o1

OdeSystem___Lorenz__do_step(o, dt) ==
  Log([o EXCEPT !.sys.t = @ + dt], "ode.step", 0, <<o.sys.t + dt>>)

OdeSystem___Lorenz__t__set(o, value) == [o EXCEPT !.sys.t = value]

\* The exported wrappers: an Rcpp::RNGScope around the converted arguments
\* and the call.
tree2_OdeSystem___Lorenz__advance(o, t, dt, rejects) ==
  LET o1 == Log(Log(o, "OdeSystem.advance", 0, <<t, dt>>), "rng.acquire", 0, <<>>)
  IN Log(OdeSystem___Lorenz__advance(o1, t, dt, rejects), "rng.release", 0, <<>>)

tree2_OdeSystem___Lorenz__try_step(o, dt, accepted) ==
  LET o1 == Log(Log(o, "OdeSystem.try_step", 0, <<dt>>), "rng.acquire", 0, <<>>)
      o2 == Log(OdeSystem___Lorenz__try_step(o1, dt, accepted), "rng.release", 0, <<>>)
  IN Log(o2, "return", 0, <<accepted>>)

tree2_OdeSystem___Lorenz__do_step(o, dt) ==
  LET o1 == Log(Log(o, "OdeSystem.do_step", 0, <<dt>>), "rng.acquire", 0, <<>>)
  IN Log(OdeSystem___Lorenz__do_step(o1, dt), "rng.release", 0, <<>>)

tree2_OdeSystem___Lorenz__t__set(o, value) ==
  LET o1 == Log(Log(o, "OdeSystem.t.set", 0, <<value>>), "rng.acquire", 0, <<>>)
  IN Log(OdeSystem___Lorenz__t__set(o1, value), "rng.release", 0, <<>>)

\* ------------------------------------------------------------ util::Lookup
\* Objects of a class derived from Lookup, by address.  addr is NULL or an
\* address.  Every entry of lookup_table is the address of a member of one
\* object: lookup_table is the address of that object, NULL for the empty
\* table.  value is the member the entries stand for.
NULL == 0
Addresses == 1..MaxObjects

NoObject == [live |-> FALSE, addr |-> NULL, lookup_table |-> NULL, value |-> 0]

Lookup_ctor == [live |-> TRUE, addr |-> NULL, lookup_table |-> NULL, value |-> 0]

\* A copy that takes the table and says the table is its own.
Lookup_copy_claiming(this, source) == [source EXCEPT !.addr = this]

\* The copy constructor and the assignment are the compiler's: member by
\* member, addr and lookup_table included.
Lookup_copy(this, source) == source

LookupMachine(objs) == [objects |-> objs, calls |-> <<>>]

\* build_lookup(): the table is built again when addr is not this object.
build_lookup(o, this) ==
  IF o.objects[this].addr # this
  THEN Log([o EXCEPT !.objects[this].lookup_table = this, !.objects[this].addr = this],
           "do_build_lookup", this, <<>>)
  ELSE o

\* get_parameters(): reads every member through the table.
get_parameters(o, this) ==
  LET Read(o1) ==
        Log(Log(o1, "lookup", o1.objects[this].lookup_table, <<>>),
            "return", this, <<o1.objects[o1.objects[this].lookup_table].value>>)
  IN Read(build_lookup(Log(o, "get_parameters", this, <<>>), this))

\* set_parameters(x): writes the members named in x through the table, then
\* runs the hook.
set_parameters(o, this, x) ==
  LET Write(o1) ==
        Log(Log([o1 EXCEPT !.objects[o1.objects[this].lookup_table].value = x],
                "lookup", o1.objects[this].lookup_table, <<>>),
            "set_parameters_post_hook", this, <<>>)
  IN Write(build_lookup(Log(o, "set_parameters", this, <<x>>), this))

\* ------------------------------------------------------------ PlantApprox
\* A plant and the spline it approximates small plants with.  vars_phys is
\* the height the exact physiological variables were computed at, -1 when
\* they never were; last is the height at the last compute_vars_phys, and
\* skipped holds the heights at which compute_vars_phys did nothing.
PlantApprox(height, height_max) ==
  [height |-> height, plant_spline |-> [height_max |-> height_max],
   vars_phys |-> -1, last |-> -1, skipped |-> {}]

PlantMachine(plant) == [plant |-> plant, calls |-> <<>>]

\* The predicate with a plant at height_max taken as large.
large_plant_do_exact_inclusive(plant) == plant.height >= plant.plant_spline.height_max

large_plant_do_exact(plant) == plant.height > plant.plant_spline.height_max

Plant__compute_vars_phys(o) ==
  [Log(o, "Plant.compute_vars_phys", 0, <<o.plant.height>>) EXCEPT
     !.plant.vars_phys = o.plant.height]

PlantApprox__compute_vars_phys(o) ==
  LET o1 == [Log(o, "compute_vars_phys", 0, <<o.plant.height>>) EXCEPT
               !.plant.last = o.plant.height]
  IN IF large_plant_do_exact(o.plant) THEN Plant__compute_vars_phys(o1)
     ELSE [o1 EXCEPT !.plant.skipped = @ \cup {o.plant.height}]

\* Plant::ode_rates emits the rates held in the physiological variables;
\* the spline's ode_rates emits the rates it approximates at the height.
PlantApprox__ode_rates(o) ==
  LET o1 == Log(o, "ode_rates", 0, <<o.plant.height>>)
  IN IF large_plant_do_exact(o.plant)
     THEN Log(o1, "Plant.ode_rates", 0, <<o.plant.vars_phys>>)
     ELSE Log(o1, "plant_spline.ode_rates", 0, <<o.plant.height>>)

\* The height is set from outside: by the solver's state or by the host.
Plant__set_height(o, height) ==
  [Log(o, "set_height", 0, <<height>>) EXCEPT !.plant.height = height]

\* ---------------------------------------------------------------------- Init
Init ==
  /\ parameters \in [n_patches : 1..MaxPatches, n_species : 1..MaxSpecies]
  /\ patches = initialise(parameters.n_patches, parameters.n_species)
  /\ age = 0
  /\ rng \in 0..(RngMod - 1)
  /\ calls = <<>>
  /\ ode_solver = Solver
  /\ ode_system = OdeSystem___Lorenz__ctor
  /\ objects = [a \in Addresses |-> NoObject]
  /\ plant_approx = PlantApprox(0, 0)

This == Machine(patches, age, rng)

\* A history is stale when the number of individuals is no longer the one
\* of the state it was computed on.
Stale(m) ==
  m.solver.history = "current" /\ n_individuals(m.patches) # n_individuals(patches)

Becomes(result) ==
  LET m == result
  IN /\ n_individuals(m.patches) <= MaxInd
     /\ m.age <= MaxAge
     /\ patches' = m.patches
     /\ age' = m.age
     /\ rng' = m.rng
     /\ calls' = m.calls
     /\ ode_solver' = IF Stale(m) THEN [m.solver EXCEPT !.history = "stale"] ELSE m.solver
     /\ UNCHANGED <<parameters, ode_system, objects, plant_approx>>

\* One operation at a time: an operation starts when the last one has
\* returned.
Idle == calls = <<>>

\* The disturbance events of one cycle: any of the patches.
Hazards == SUBSET (1..size(patches))

Step ==
  /\ Idle
  /\ age < MaxAge
  /\ \E sv \in SolverChoice, ub \in UBFor(patches), hazard \in Hazards :
       Becomes(step(Log([This EXCEPT !.hazard = hazard], "step", 0, <<>>), sv, ub))

StepDeterministic ==
  /\ Idle
  /\ age < MaxAge
  /\ \E sv \in SolverChoice : Becomes(step_deterministic(This, sv))

StepStochastic ==
  /\ Idle
  /\ \E ub \in UBFor(patches) : Becomes(step_stochastic(This, ub))

RStep ==
  /\ Idle
  /\ age < MaxAge
  /\ \E sv \in SolverChoice, ub \in UBFor(patches), hazard \in Hazards :
       Becomes(r_step([This EXCEPT !.hazard = hazard], sv, ub))

RStepStochastic ==
  /\ Idle
  /\ \E ub \in UBFor(patches) : Becomes(r_step_stochastic(This, ub))

Deaths ==
  /\ Idle
  /\ Becomes(deaths(This))

Births ==
  /\ Idle
  /\ \E oob \in {ub.oob : ub \in UBFor(patches)} :
       LET b == births(This, oob)
       IN Becomes(Log(b.m, "return", 0, b.n))

\* add_seeds with one total per species.
AddSeeds ==
  /\ Idle
  /\ \E seeds \in [1..n_species -> 0..MaxInd], ub \in UBFor(patches) :
       /\ n_individuals(patches) + SumSeq(seeds) <= MaxInd
       /\ Becomes(add_seeds(This, seeds, ub))

\* Matrices of every shape, with 0 or 1 seedling per entry.
Matrices ==
  UNION {[1..c -> [1..r -> 0..1]] : c \in 1..MaxPatches, r \in 1..MaxSpecies}

RAddSeedlings ==
  /\ Idle
  /\ \E mat \in Matrices :
       /\ n_individuals(patches) + SumSeq([i \in 1..ncol(mat) |-> SumSeq(mat[i])]) <= MaxInd
       /\ Becomes(r_add_seedlings(This, mat))

RNIndividuals ==
  /\ Idle
  /\ Becomes(Log(Log(This, "r_n_individuals", 0, <<>>), "return", 0, r_n_individuals(patches)))

RClear ==
  /\ Idle
  /\ Becomes(r_clear(This))

\* The ODE interface, called with a vector of ode_size() values: the state
\* itself or the state some time later.
StateVectors == {Advance(state_vector(patches), d) : d \in 0..MaxDt}

OdeValuesSet ==
  /\ Idle
  /\ \E y \in StateVectors :
       LET m == Log(This, "ode_values_set", 0, y)
           r == ode_values_set(m.patches, y, 0)
       IN Becomes(Log([m EXCEPT !.patches = r.patches], "return", 0, <<r.it>>))

OdeValues ==
  /\ Idle
  /\ LET buf == Repeat(0, ode_size(patches))
         r == ode_values(patches, buf, 0)
     IN Becomes(Log(Log(This, "ode_values", 0, buf), "return", 0, <<r.it>> \o r.buf))

Derivs ==
  /\ Idle
  /\ \E time \in 0..MaxAge, y \in StateVectors :
       LET r == derivs(This, time, y)
       IN Becomes(Log(r.m, "return", 0, <<r.it_set, r.it_rates>> \o r.dydt))

\* The operation has returned to its caller: the log of its calls is dropped.
Return ==
  /\ calls # <<>>
  /\ calls' = <<>>
  /\ UNCHANGED <<parameters, patches, age, rng, ode_solver, ode_system, objects, plant_approx>>

Next ==
  \/ Step
  \/ StepDeterministic
  \/ StepStochastic
  \/ RStep
  \/ RStepStochastic
  \/ Deaths
  \/ Births
  \/ AddSeeds
  \/ RAddSeedlings
  \/ RNIndividuals
  \/ RClear
  \/ OdeValuesSet
  \/ OdeValues
  \/ Derivs
  \/ Return

Spec == Init /\ [][Next]_vars

\* ------------------------------------------ any Parameters, valid or not
\* The constructor is run on every n_patches a Parameters object can carry
\* in its int field, positive or not.
InitConfig ==
  /\ parameters \in [n_patches : (-1)..MaxPatches, n_species : 1..MaxSpecies]
  /\ patches = initialise(parameters.n_patches, parameters.n_species)
  /\ age = 0
  /\ rng \in 0..(RngMod - 1)
  /\ calls = <<>>
  /\ ode_solver = Solver
  /\ ode_system = OdeSystem___Lorenz__ctor
  /\ objects = [a \in Addresses |-> NoObject]
  /\ plant_approx = PlantApprox(0, 0)

SpecConfig == InitConfig /\ [][Next]_vars

\* ------------------------------------------- OdeSystem<Lorenz>, on its own
\* The ODE system is driven through its wrappers; no metacommunity method
\* runs.
ThisOde == OdeMachine(ode_system)

OdeBecomes(o) ==
  /\ o.sys.t <= MaxTime
  /\ ode_system' = o.sys
  /\ calls' = o.calls
  /\ UNCHANGED <<parameters, patches, age, rng, ode_solver, objects, plant_approx>>

\* advance to a time that is not behind the system's.
OdeAdvance ==
  /\ Idle
  /\ \E t \in ode_system.t..MaxTime, dt \in 1..MaxDt, rejects \in 0..Attempts(MaxDt) :
       OdeBecomes(tree2_OdeSystem___Lorenz__advance(ThisOde, t, dt, rejects))

OdeTryStep ==
  /\ Idle
  /\ \E dt \in 1..MaxDt, accepted \in BOOLEAN :
       OdeBecomes(tree2_OdeSystem___Lorenz__try_step(ThisOde, dt, accepted))

OdeDoStep ==
  /\ Idle
  /\ \E dt \in 1..MaxDt : OdeBecomes(tree2_OdeSystem___Lorenz__do_step(ThisOde, dt))

OdeTSet ==
  /\ Idle
  /\ \E value \in 0..MaxTime : OdeBecomes(tree2_OdeSystem___Lorenz__t__set(ThisOde, value))

NextOde ==
  \/ OdeAdvance
  \/ OdeTryStep
  \/ OdeDoStep
  \/ OdeTSet
  \/ Return

SpecOde == Init /\ [][NextOde]_vars

\* ----------------------------------------------------- util::Lookup, on its own
\* Objects are constructed, copied, assigned, used and destroyed; an address
\* is used again after the object that lived there is gone.
ThisLookup == LookupMachine(objects)

LookupBecomes(o) ==
  /\ objects' = o.objects
  /\ calls' = o.calls
  /\ UNCHANGED <<parameters, patches, age, rng, ode_solver, ode_system, plant_approx>>

LookupConstruct ==
  /\ Idle
  /\ \E this \in Addresses :
       /\ ~objects[this].live
       /\ LookupBecomes([Log(ThisLookup, "Lookup", this, <<>>) EXCEPT
                           !.objects[this] = Lookup_ctor])

LookupCopy ==
  /\ Idle
  /\ \E this \in Addresses, source \in Addresses :
       /\ ~objects[this].live
       /\ objects[source].live
       /\ LookupBecomes([Log(ThisLookup, "Lookup.copy", this, <<source>>) EXCEPT
                           !.objects[this] = Lookup_copy(this, objects[source])])

LookupAssign ==
  /\ Idle
  /\ \E this \in Addresses, source \in Addresses :
       /\ objects[this].live
       /\ objects[source].live
       /\ LookupBecomes([Log(ThisLookup, "Lookup.assign", this, <<source>>) EXCEPT
                           !.objects[this] = Lookup_copy(this, objects[source])])

LookupDestroy ==
  /\ Idle
  /\ \E this \in Addresses :
       /\ objects[this].live
       /\ LookupBecomes([Log(ThisLookup, "~Lookup", this, <<>>) EXCEPT
                           !.objects[this] = NoObject])

LookupGetParameters ==
  /\ Idle
  /\ \E this \in Addresses :
       /\ objects[this].live
       /\ LookupBecomes(get_parameters(ThisLookup, this))

LookupSetParameters ==
  /\ Idle
  /\ \E this \in Addresses, x \in 0..MaxValue :
       /\ objects[this].live
       /\ LookupBecomes(set_parameters(ThisLookup, this, x))

NextLookup ==
  \/ LookupConstruct
  \/ LookupCopy
  \/ LookupAssign
  \/ LookupDestroy
  \/ LookupGetParameters
  \/ LookupSetParameters
  \/ Return

InitLookup ==
  /\ Init
  /\ parameters = [n_patches |-> 1, n_species |-> 1]
  /\ rng = 0

SpecLookup == InitLookup /\ [][NextLookup]_vars

\* ----------------------------------------------------- PlantApprox, on its own
ThisPlant == PlantMachine(plant_approx)

PlantBecomes(o) ==
  /\ plant_approx' = o.plant
  /\ calls' = o.calls
  /\ UNCHANGED <<parameters, patches, age, rng, ode_solver, ode_system, objects>>

PlantSetHeight ==
  /\ Idle
  /\ \E height \in 0..MaxPlantHeight : PlantBecomes(Plant__set_height(ThisPlant, height))

PlantComputeVarsPhys ==
  /\ Idle
  /\ PlantBecomes(PlantApprox__compute_vars_phys(ThisPlant))

PlantOdeRates ==
  /\ Idle
  /\ PlantBecomes(PlantApprox__ode_rates(ThisPlant))

NextPlant ==
  \/ PlantSetHeight
  \/ PlantComputeVarsPhys
  \/ PlantOdeRates
  \/ Return

\* A plant of any height with a spline of any height_max.
InitPlant ==
  /\ parameters = [n_patches |-> 1, n_species |-> 1]
  /\ patches = initialise(parameters.n_patches, parameters.n_species)
  /\ age = 0
  /\ rng = 0
  /\ calls = <<>>
  /\ ode_solver = Solver
  /\ ode_system = OdeSystem___Lorenz__ctor
  /\ objects = [a \in Addresses |-> NoObject]
  /\ \E height \in 0..MaxPlantHeight, height_max \in 1..(MaxPlantHeight - 1) :
       plant_approx = PlantApprox(height, height_max)

SpecPlant == InitPlant /\ [][NextPlant]_vars
\* ======================================================================
\* Properties
\* ======================================================================
Running(op) == calls # <<>> /\ calls[1].op = op

At(op) == {k \in DOMAIN calls : calls[k].op = op}

AtPatch(op, p) == {k \in DOMAIN calls : calls[k].op = op /\ calls[k].patch = p}

\* The count handed to patch.add_seeds for species i (1-based), over all
\* patches; a vector without an entry for the species hands it nothing.
Handed(i) ==
  SumSeq([k \in DOMAIN calls |->
            IF calls[k].op = "patch.add_seeds" /\ i <= Len(calls[k].arg)
            THEN calls[k].arg[i] ELSE 0])

\* C1: after add_seeds(seeds), for every species the counts handed to the
\* patches add up to the species' total.
C1_SeedsConserved ==
  Running("add_seeds") =>
    \A i \in DOMAIN calls[1].arg : Handed(i) = calls[1].arg[i]

\* Seeds are lost although every count handed over is a plain non-negative
\* number: the last patch is handed nothing of what the first one left.
C1_SeedsLost ==
  /\ Running("add_seeds")
  /\ size(patches) = 2
  /\ \A h \in At("patch.add_seeds") : \A i \in DOMAIN calls[h].arg : calls[h].arg[i] >= 0
  /\ Handed(1) < calls[1].arg[1]

\* C2: every draw made for the k-th patch uses p = 1/(N - k + 1), so the
\* counter is at least 1 at every draw and exactly 1 for the last patch; the
\* number of trials is what remains of the species' pool; the last patch is
\* handed everything that remains.
C2_SequentialBinomial ==
  Running("add_seeds") =>
    /\ \A k \in At("rbinom") :
         /\ calls[k].arg[2] = size(patches) - calls[k].patch + 1
         /\ calls[k].arg[2] >= 1
    /\ \A k \in AtPatch("rbinom", size(patches)) :
         \E h \in AtPatch("patch.add_seeds", size(patches)) :
           calls[h].arg[calls[k].arg[4] + 1] = calls[k].arg[1]

\* C3: with one patch, the patch is handed exactly seeds[i] for every
\* species i (a vector without an entry for a species hands it nothing).
C3_SinglePatchGetsAll ==
  (Running("add_seeds") /\ size(patches) = 1) =>
    /\ Cardinality(At("patch.add_seeds")) = 1
    /\ \A h \in At("patch.add_seeds") :
         \A i \in DOMAIN calls[1].arg : Slot(calls[h].arg, i) = calls[1].arg[i]

Demographic ==
  {"step_stochastic", "deaths", "births", "add_seeds", "patch.deaths",
   "patch.births", "patch.add_seeds", "rbinom"}

Integration ==
  {"step_deterministic", "solver.set_state", "solver.step", "solver.try", "derivs",
   "solver.accept"}

C5_StochasticOrder ==
  At("step_stochastic") # {} =>
    /\ \A p \in 1..size(patches) :
         /\ Cardinality(AtPatch("patch.deaths", p)) = 1
         /\ Cardinality(AtPatch("patch.births", p)) = 1
         /\ Cardinality(AtPatch("patch.add_seeds", p)) = 1
    /\ \A d \in At("patch.deaths"), b \in At("patch.births") : d < b
    /\ \A b \in At("patch.births"), a \in At("patch.add_seeds") : b < a
    /\ \A a \in At("patch.add_seeds"), b \in At("patch.add_seeds") :
         calls[a].patch < calls[b].patch => a < b
    /\ \A k \in At("patch.deaths") \cup At("patch.births") \cup At("patch.add_seeds") :
         calls[k].patch \in 1..size(patches)

C5_Witness ==
  /\ Running("step_stochastic")
  /\ size(patches) = 2
  /\ n_individuals(patches) = 2
  /\ \E k \in At("patch.add_seeds") : \E i \in DOMAIN calls[k].arg : calls[k].arg[i] > 0

\* C6: ode_size() is the sum of the patches' ode_size().
C6_OdeSizeIsSum ==
  ode_size(patches) = SumSeq([i \in 1..Len(patches) |-> patch_ode_size(patches[i])])

C6_Witness ==
  /\ calls # <<>>
  /\ size(patches) = 2
  /\ patch_ode_size(patches[1]) = 1
  /\ patch_ode_size(patches[2]) = 1

\* C7: ode_values_set, ode_values and ode_rates go through the patches in
\* index order, each patch starting at the cursor the one before returned,
\* and return the cursor ode_size() further on; slot k of the rates is the
\* rate of the variable in slot k of the values, also for a state that was
\* written by ode_values_set.
C7_SameTraversal ==
  LET n == ode_size(patches)
      y == state_vector(patches)
  IN /\ y = Concat([i \in 1..Len(patches) |-> patch_flat(patches[i])])
     /\ \A c \in 0..1 :
          /\ ode_values(patches, Repeat(0, n + c), c).it = c + n
          /\ ode_rates(patches, Repeat(0, n + c), c).it = c + n
          /\ ode_values_set(patches, Repeat(0, c) \o y, c).it = c + n
          /\ ode_values_set(patches, Repeat(0, c) \o y, c).patches = patches
     /\ \A k \in 1..n : rate_vector(patches)[k] = growth_rate(y[k])
     /\ \A v \in StateVectors :
          LET q == ode_values_set(patches, v, 0).patches
          IN /\ state_vector(q) = v
             /\ \A k \in 1..n : rate_vector(q)[k] = growth_rate(v[k])

C7_Witness ==
  /\ Running("derivs")
  /\ size(patches) = 2
  /\ patch_flat(patches[1]) = <<0>>
  /\ patch_flat(patches[2]) = <<1>>

\* C8: writing back the vector that ode_values has just read changes
\* nothing: the patches are as before and ode_values reads the same vector.
C8_RoundTrip ==
  [][(calls' # <<>> /\ calls'[1].op = "ode_values_set"
        /\ calls'[1].arg = state_vector(patches))
      => /\ patches' = patches
         /\ state_vector(patches') = state_vector(patches)
         /\ Len(state_vector(patches')) = ode_size(patches)]_vars

C8_Witness ==
  /\ Running("ode_values_set")
  /\ calls[1].arg = state_vector(patches)
  /\ size(patches) = 2
  /\ patch_flat(patches[1]) = <<0>>
  /\ patch_flat(patches[2]) = <<1>>

\* C9: when step_deterministic() returns, the patches hold the state the
\* solver accepted and age is the solver's time.
C9_PatchesHoldAcceptedState ==
  (Running("step_deterministic") /\ At("solver.accept") # {}) =>
    /\ Cardinality(At("solver.step")) = 1
    /\ \A a \in At("solver.accept") :
         /\ age = calls[a].arg[1]
         /\ <<age>> \o state_vector(patches) = calls[a].arg

\* C10: from one state of the metacommunity and of the generator,
\* step_stochastic() and add_seeds() end in one state, whatever a read past
\* the end of a vector yields.
Outcome(m) == <<m.patches, m.age, m.rng>>

C10_Reproducible ==
  calls = <<>> =>
    \A nan \in NaNAsInt, o1 \in StrayInt, o2 \in StrayInt :
      LET u1 == [nan |-> nan, oob |-> o1]
          u2 == [nan |-> nan, oob |-> o2]
      IN /\ Outcome(step_stochastic(This, u1)) = Outcome(step_stochastic(This, u2))
         /\ \A seeds \in [1..n_species -> 0..1] :
              Outcome(add_seeds(This, seeds, u1)) = Outcome(add_seeds(This, seeds, u2))

\* The calls that draw from the generator: the binomial draws of add_seeds
\* and the death rolls of a patch.
Draws == At("rbinom") \cup At("patch.deaths")

\* The generator is held at call k: one more acquire than release before it.
Held(k) ==
  Cardinality({a \in At("rng.acquire") : a < k})
    - Cardinality({r \in At("rng.release") : r < k}) = 1

\* C11 as stated: every draw made by step, step_stochastic, deaths or
\* add_seeds happens while the generator is held.
C11_EveryDrawHeld == \A k \in Draws : Held(k)

\* C11: r_step() and r_step_stochastic() acquire the generator once, before
\* anything else, never again while it is held, and release it last, also
\* when the step fails; every draw in between is made while it is held;
\* r_step() runs step() and not r_step_stochastic().  The methods they
\* wrap acquire nothing themselves.
C11_EntryPointsScoped ==
  /\ (Running("r_step") \/ Running("r_step_stochastic")) =>
       /\ At("rng.acquire") = {2}
       /\ At("rng.release") = {Len(calls)}
       /\ \A k \in Draws : Held(k)
  /\ Running("r_step") =>
       /\ calls[3].op = "step"
       /\ At("r_step_stochastic") = {}
  /\ (calls # <<>> /\ ~Running("r_step") /\ ~Running("r_step_stochastic")) =>
       At("rng.acquire") = {}

C11_Witness ==
  /\ Running("r_step")
  /\ \E k \in At("rbinom") : calls[k].arg[1] > 0 /\ calls[k].arg[2] > 1
  /\ \E k \in At("step_stochastic") : calls[k].arg # <<>>

\* C12: when the solver's step fails inside step_deterministic(), called
\* directly or through step() or r_step(), the failure ends the operation:
\* the solver's step was run once and is not run again, no death, birth or
\* seed addition follows, and age is what it was.
C12_FailurePropagates ==
  [][(calls = <<>> /\ calls' # <<>>
        /\ calls'[1].op \in {"step", "step_deterministic", "r_step"}
        /\ \E k \in DOMAIN calls' : calls'[k].op = "throw")
      => /\ age' = age
         /\ Cardinality({k \in DOMAIN calls' : calls'[k].op = "solver.step"}) = 1
         /\ Cardinality({k \in DOMAIN calls' : calls'[k].op = "step_deterministic"}) = 1
         /\ \A k \in DOMAIN calls' :
              /\ calls'[k].op \notin Demographic
              /\ calls'[k].op # "solver.accept"
              /\ calls'[k].op = "throw" =>
                   \A l \in (k + 1)..Len(calls') : calls'[l].op = "rng.release"]_vars

C12_Witness ==
  /\ Running("step")
  /\ At("throw") # {}
  /\ age > 0
  /\ n_individuals(patches) > 0

\* C13: a step of the solver ends after a bounded number of attempts, each
\* smaller than the one before and none below the minimum size: either the
\* last attempt is accepted, with the state advanced by its size and the
\* time moved on by it, or the size has fallen below the minimum and the
\* step fails.
C13_SolverStepEnds ==
  \A s \in At("solver.step") :
    LET tries == At("solver.try")
        last == CHOOSE k \in tries : \A l \in tries : l <= k
    IN /\ tries # {}
       /\ Cardinality(tries) <= Attempts(MaxDt)
       /\ \A k \in tries :
            /\ k > s
            /\ calls[k].arg[1] >= 1
            /\ \A l \in tries : k < l => calls[l].arg[1] < calls[k].arg[1]
       /\ Cardinality(At("solver.accept") \cup At("throw")) = 1
       /\ \A a \in At("solver.accept") :
            /\ a > last
            /\ calls[a].arg[1] = calls[s].arg[1] + calls[last].arg[1]
            /\ calls[a].arg[1] > calls[s].arg[1]
       /\ \A f \in At("throw") :
            /\ f > last
            /\ calls[last].arg[1] \div 2 < 1

C13_Witness ==
  /\ Running("step_deterministic")
  /\ Cardinality(At("solver.try")) = Attempts(MaxDt)
  /\ At("throw") # {}

\* C14: advance(t, dt), called with t not behind the system's time, starts
\* no sub-step that would end beyond t and never has the time beyond t; the
\* sub-step that would pass t is cut to end at t; unless the step fails,
\* the time is t when advance returns.
C14_AdvanceLandsOnTarget ==
  Running("OdeSystem.advance") =>
    LET t == calls[1].arg[1]
        dt == calls[1].arg[2]
    IN /\ \A k \in At("ode.try") :
            /\ calls[k].arg[2] <= dt
            /\ calls[k].arg[1] + calls[k].arg[2] <= t
       /\ \A k \in At("ode.step") : calls[k].arg[1] <= t
       /\ ode_system.t <= t
       /\ At("throw") = {} => ode_system.t = t

C14_Witness ==
  /\ Running("OdeSystem.advance")
  /\ At("throw") = {}
  /\ Cardinality(At("ode.step")) > 1
  /\ \E k \in At("ode.step") :
       /\ calls[k].arg[1] = calls[1].arg[1]
       /\ calls[k - 1].op = "ode.try"
       /\ calls[k - 1].arg[2] < calls[1].arg[2]

\* C15: set_state fails exactly when the vector has not ode_size() entries;
\* the vector step_deterministic() hands over is the state vector, of
\* ode_size() entries, and set_state does not fail on it: the solver's step
\* is what follows.
C15_SetStateLength ==
  [][/\ \A n \in 0..(MaxInd + 1) :
          failed(solver_set_state(This, Repeat(0, n), age)) <=> n # ode_size(patches)
     /\ (calls = <<>> /\ calls' # <<>>) =>
          \A k \in DOMAIN calls' :
            calls'[k].op = "solver.set_state" =>
              /\ Len(calls'[k].arg) = ode_size(patches)
              /\ calls'[k].arg = state_vector(patches)
              /\ calls'[k + 1].op = "solver.step"]_vars

C15_Witness ==
  /\ Running("step_deterministic")
  /\ \E k \in At("solver.set_state") : Len(calls[k].arg) = MaxInd

\* A matrix of the wrong shape: its columns are not the patches or its rows
\* are not the species.
Malformed(mat) == ncol(mat) # size(patches) \/ nrow(mat) # n_species

\* C16: r_add_seedlings with a matrix of the wrong shape fails and leaves
\* every patch as it was, and no metacommunity is built from a Parameters
\* whose n_patches is zero or negative.
C16_ConfigErrorsRejected ==
  [][/\ parameters.n_patches >= 1
     /\ \A mat \in Matrices :
          Malformed(mat) =>
            /\ failed(r_add_seedlings(This, mat))
            /\ r_add_seedlings(This, mat).patches = patches]_vars

\* The half of C16 about r_add_seedlings alone.
C16_MalformedMatrixRejected ==
  [][(calls = <<>> /\ calls' # <<>> /\ calls'[1].op = "r_add_seedlings"
        /\ (calls'[1].arg[1] # size(patches) \/ calls'[1].arg[2] # n_species))
      => /\ calls'[Len(calls')].op = "throw"
         /\ patches' = patches
         /\ \A k \in DOMAIN calls' : calls'[k].op # "patch.add_seedlings"]_vars

\* C17: r_n_individuals() has one column per patch and one row per
\* species, and its entry (s, p) is the number of individuals of species s
\* in patch p; after r_add_seedlings(M) on a metacommunity without
\* individuals, with M of the right shape, r_n_individuals() is M.
C17_SameLayout ==
  [][/\ ncol(r_n_individuals(patches)) = size(patches)
     /\ \A p \in 1..size(patches) :
          /\ Len(r_n_individuals(patches)[p]) = n_species
          /\ \A sp \in 1..n_species :
               r_n_individuals(patches)[p][sp] = Len(patches[p].species[sp])
     /\ (calls = <<>> /\ n_individuals(patches) = 0
           /\ calls' # <<>> /\ calls'[1].op = "r_add_seedlings"
           /\ calls'[Len(calls')].op # "throw")
         => \A p \in 1..size(patches) :
              \E k \in DOMAIN calls' :
                /\ calls'[k].op = "patch.add_seedlings"
                /\ calls'[k].patch = p
                /\ r_n_individuals(patches')[p] = calls'[k].arg]_vars

C17_Witness ==
  /\ Running("r_add_seedlings")
  /\ size(patches) = 2
  /\ n_species = 2
  /\ \E k \in AtPatch("patch.add_seedlings", 1) : calls[k].arg = <<0, 1>>
  /\ \E k \in AtPatch("patch.add_seedlings", 2) : calls[k].arg = <<0, 0>>
  /\ r_n_individuals(patches) = <<(<<0, 1>>), (<<0, 0>>)>>

\* The vector births() returned: to the host, or to step_stochastic(), which
\* hands it to add_seeds().
BirthsReturned(c) ==
  {c[k].arg : k \in {k \in DOMAIN c :
     \/ c[1].op = "births" /\ c[k].op = "return"
     \/ c[k].op = "add_seeds" /\ \E b \in DOMAIN c : b < k /\ c[b].op = "births"}}

\* deaths() has run in the operation that led to calls c.
DeathsRan(c) == \E k \in DOMAIN c : c[k].op = "deaths"

NoPatchGrew ==
  \A p \in 1..size(patches) : \A sp \in 1..n_species :
    Len(patches'[p].species[sp]) <= Len(patches[p].species[sp])

C18_NeverNegativeInRange ==
  [][/\ (calls = <<>> /\ calls' # <<>> /\ calls'[1].op = "deaths") => NoPatchGrew
     /\ n_species >= size(patches) =>
          \A n \in BirthsReturned(calls') : \A i \in DOMAIN n : n[i] >= 0
     /\ \A p \in 1..size(patches) : \A sp \in 1..n_species :
          r_n_individuals(patches')[p][sp] >= 0]_vars

C19_OwnsNPatches ==
  /\ size(patches) = parameters.n_patches
  /\ \A p \in 1..size(patches) : Len(patches[p].species) = n_species

C19_Witness ==
  /\ Running("r_step")
  /\ At("patch.add_seeds") # {}
  /\ size(patches) = MaxPatches
  /\ n_individuals(patches) = MaxInd

\* C20: no step of the solver starts from a step-size history that is
\* stale, computed before a stochastic event changed the number of
\* individuals: reset() has been called in between.
C20_ResetAfterAlteration ==
  \A k \in At("solver.step") : calls[k].arg[2] # "stale"

\* reset() is called by r_clear() and by nothing else.
C20_ResetOnlyInRClear ==
  At("solver.reset") # {} => Running("r_clear")

\* The patches disturbed in the running operation.
Disturbed == {calls[k].patch : k \in At("patch.disturbance")}

\* The seedlings of species sp that add_seeds handed to patch p in the
\* running operation.
SeedlingsGiven(p, sp) ==
  SumSeq([k \in DOMAIN calls |->
            IF /\ calls[k].op = "patch.add_seeds"
               /\ calls[k].patch = p
               /\ sp <= Len(calls[k].arg)
               /\ calls[k].arg[sp] > 0
            THEN calls[k].arg[sp] ELSE 0])

\* C21 as stated: after the step() in which a patch was disturbed, the patch
\* has no individual of any species and age 0; and the age of every patch is
\* >= 0 in every state.
C21_DisturbedPatchEmpty ==
  /\ \A p \in 1..size(patches) : patches[p].age >= 0
  /\ \A p \in Disturbed :
       /\ patches[p].age = 0
       /\ \A sp \in 1..n_species : patches[p].species[sp] = <<>>

\* C21: after the step() in which a patch was disturbed, the patch has age 0
\* and holds nothing but the seedlings the add_seeds of that same step gave
\* it, each at the germination height; and the age of every patch is >= 0 in
\* every state.
C21_DisturbedPatchHoldsSeedlings ==
  /\ \A p \in 1..size(patches) : patches[p].age >= 0
  /\ \A p \in Disturbed :
       /\ patches[p].age = 0
       /\ \A sp \in 1..n_species :
            patches[p].species[sp] = Repeat(height_0, SeedlingsGiven(p, sp))

\* A step() that found individuals and disturbed every patch.
C21_Witness ==
  /\ Disturbed = 1..size(patches)
  /\ \E k \in At("step_stochastic") : calls[k].arg # <<>>

\* A disturbed patch that received a seedling in the same step().
C21_SeedlingInDisturbedPatch ==
  \E p \in Disturbed : \E sp \in 1..n_species : SeedlingsGiven(p, sp) > 0

\* The seeds of species i that the patches produce together.
SeedPool(i) ==
  SumSeq([p \in 1..size(patches) |-> patch_births(patches[p])[i]])

\* C22: the vector births() returns, which is the one step_stochastic passes
\* to add_seeds, has one entry per species, and what births() returns for
\* species i is the sum over the patches of patch.births()[i].
C22_BirthsPerSpecies ==
  /\ \A n \in BirthsReturned(calls) : Len(n) = n_species
  /\ Running("births") =>
       \A k \in At("return") : \A i \in 1..n_species :
         i <= Len(calls[k].arg) /\ calls[k].arg[i] = SeedPool(i)

\* births() returned a vector with one entry per patch where the patches are
\* not as many as the species.
C22_OneEntryPerPatch ==
  /\ size(patches) # n_species
  /\ Running("births")
  /\ \E k \in At("return") : Len(calls[k].arg) = size(patches)

\* C23: add_seeds reads and writes its input vector below its length only
\* (the index i of a draw is below the length of the vector add_seeds was
\* called with), and the vector handed to each patch has exactly one entry
\* per species.
C23_WithinVectors ==
  \A a \in At("add_seeds") :
    /\ \A k \in At("rbinom") : k > a => calls[k].arg[4] < Len(calls[a].arg)
    /\ \A k \in At("patch.add_seeds") : k > a => Len(calls[k].arg) = n_species

\* add_seeds, called with one total per species, indexed its input vector
\* at or past its length.
C23_ReadPastEnd ==
  /\ Running("add_seeds")
  /\ Len(calls[1].arg) = n_species
  /\ \E k \in At("rbinom") : calls[k].arg[4] >= Len(calls[1].arg)

\* C24: derivs(time, y, dydt) called with ode_size() values overwrites the
\* state of all patches with y and then writes the rates: when it returns,
\* ode_values yields y, dydt holds ode_size() rates, the rate in slot k being
\* the growth rate at y[k] whatever the state held before the call, and the
\* patches and the rates are the same for every time argument.
C24_DerivsFromY ==
  [][(calls = <<>> /\ calls' # <<>> /\ calls'[1].op = "derivs") =>
       LET y == calls'[1].arg
           ret == calls'[Len(calls')].arg
           dydt == SubSeq(ret, 3, Len(ret))
       IN /\ state_vector(patches') = y
          /\ Len(dydt) = ode_size(patches')
          /\ \A k \in 1..Len(dydt) : dydt[k] = growth_rate(y[k])
          /\ \A time \in 0..MaxAge :
               /\ derivs(This, time, y).m.patches = patches'
               /\ derivs(This, time, y).dydt = dydt]_vars

\* derivs has returned rates for a vector that is not the state held before
\* the call, and gives other rates than that state does.
C24_Witness ==
  /\ Running("derivs")
  /\ At("return") # {}
  /\ \E k \in 1..Len(calls[1].arg) :
       /\ calls[1].arg[k] = MaxHeight
       /\ calls[Len(calls)].arg[2 + k] = 0
       /\ growth_rate(height_0) # 0

\* C25: after r_clear(), from any state: age is 0, every patch is empty and
\* has age 0, ode_size() is 0, r_n_individuals() is all zeros, the patches
\* are as many as before, and the solver's step-size history has been reset.
C25_Cleared ==
  [][(calls = <<>> /\ calls' # <<>> /\ calls'[1].op = "r_clear") =>
       /\ age' = 0
       /\ size(patches') = size(patches)
       /\ \A p \in 1..size(patches') :
            /\ patches'[p].age = 0
            /\ \A sp \in 1..n_species : patches'[p].species[sp] = <<>>
            /\ \A sp \in 1..n_species : r_n_individuals(patches')[p][sp] = 0
       /\ ode_size(patches') = 0
       /\ ode_solver'.history = "none"
       /\ At("solver.reset")' # {}]_vars

\* r_clear() has run on a metacommunity that held individuals.
C25_Witness ==
  /\ Running("r_clear")
  /\ calls[1].arg # <<>>
  /\ size(patches) = MaxPatches

\* The operations of the stochastic phase.
StochasticPhase ==
  {"step_stochastic", "r_step_stochastic", "deaths", "births", "add_seeds",
   "r_add_seedlings"}

\* C26: step_stochastic(), deaths(), births(), add_seeds() and
\* r_add_seedlings() leave the age of the metacommunity as it is;
\* step_deterministic() leaves the number of individuals of every species in
\* every patch, and so ode_size(), as it is; the age decreases in r_clear()
\* only.
C26_Frames ==
  [][(calls = <<>> /\ calls' # <<>>) =>
       /\ calls'[1].op \in StochasticPhase => age' = age
       /\ calls'[1].op = "step_deterministic" =>
            /\ ode_size(patches') = ode_size(patches)
            /\ \A p \in 1..size(patches) : \A sp \in 1..n_species :
                 Len(patches'[p].species[sp]) = Len(patches[p].species[sp])
       /\ calls'[1].op # "r_clear" => age' >= age]_vars

\* step_stochastic() has changed the number of individuals at an age that
\* is not 0.
C26_Witness ==
  /\ Running("step_stochastic")
  /\ age > 0
  /\ Len(calls[1].arg) # ode_size(patches)

\* step_deterministic() has moved the age on with individuals in the patches.
C26_DeterministicWitness ==
  /\ Running("step_deterministic")
  /\ At("solver.accept") # {}
  /\ ode_size(patches) > 0

\* An operation on a Lookup object starts in this step.
LookupCall(ops) == calls = <<>> /\ calls' # <<>> /\ calls'[1].op \in ops

\* What get_parameters() and set_parameters(x) do to the object they are
\* called on: the table is built again if and only if addr was not this
\* object; afterwards addr is this object, every entry looked up points at a
\* member of this object, set_parameters has written this object's member
\* and no other object's, and its hook has run last.
LookupUsed ==
  LookupCall({"get_parameters", "set_parameters"}) =>
    LET this == calls'[1].patch
    IN /\ (At("do_build_lookup")' # {}) = (objects[this].addr # this)
       /\ objects'[this].addr = this
       /\ objects'[this].lookup_table = this
       /\ \A k \in At("lookup")' : calls'[k].patch = this
       /\ calls'[1].op = "set_parameters" =>
            /\ objects'[this].value = calls'[1].arg[1]
            /\ \A a \in Addresses \ {this} : objects'[a] = objects[a]
            /\ calls'[Len(calls')].op = "set_parameters_post_hook"

C27_AssignedOwnAddr ==
  /\ Running("Lookup.assign")
  /\ calls[1].arg[1] # calls[1].patch
  /\ objects[calls[1].patch].addr = calls[1].patch

\* The height a call was made at.
PlantCallAt(op) == {calls[k].arg[1] : k \in At(op)}

\* C28: compute_vars_phys computes the exact physiology if and only if
\* height() > plant_spline->height_max(), and does nothing for a plant at
\* height_max; ode_rates emits the exact rates if and only if height() >
\* height_max and the spline's rates otherwise; and ode_rates emits no exact
\* rates at a height at which compute_vars_phys skipped the exact
\* computation, whatever the height was set to between the calls.
C28_OnePredicate ==
  /\ Running("compute_vars_phys") =>
       /\ (At("Plant.compute_vars_phys") # {})
            = (plant_approx.height > plant_approx.plant_spline.height_max)
       /\ At("Plant.compute_vars_phys") = {} => plant_approx.height \in plant_approx.skipped
       /\ plant_approx.height = plant_approx.plant_spline.height_max =>
            plant_approx.vars_phys # plant_approx.height
  /\ Running("ode_rates") =>
       /\ (At("Plant.ode_rates") # {})
            = (plant_approx.height > plant_approx.plant_spline.height_max)
       /\ (At("plant_spline.ode_rates") # {}) = (At("Plant.ode_rates") = {})
       /\ At("Plant.ode_rates") # {} => plant_approx.height \notin plant_approx.skipped
       /\ plant_approx.height = plant_approx.plant_spline.height_max =>
            PlantCallAt("plant_spline.ode_rates") = {plant_approx.height}

\* ode_rates has emitted exact rates after a compute_vars_phys that did
\* nothing, the height having been raised between the two calls.
C28_Witness ==
  /\ Running("ode_rates")
  /\ At("Plant.ode_rates") # {}
  /\ plant_approx.last \in plant_approx.skipped
  /\ plant_approx.last = plant_approx.plant_spline.height_max
====
